---------------------------- MODULE Spec2Model ----------------------------
(***************************************************************************)
(* Model of localdns (app/main.go): the UDP transport loop of main, the     *)
(* response builder createResponse, and the decoders parseDomainName,       *)
(* parseQuestion and HandleDNSPacket.                                       *)
(*                                                                         *)
(* A byte slice is a sequence of integers 0..255; Go index i is TLA+ index  *)
(* i+1.  A Go run-time panic (index or slice bound out of range) is the     *)
(* outcome "panic" of the operation that raises it.                         *)
(***************************************************************************)
EXTENDS Integers, Sequences, FiniteSets, TLC

VARIABLES
    pc,        \* main: "recv" | "build" | "send" | "returned" | "panicked"
    buf,       \* main: buf[:size], the datagram of this iteration
    response,  \* main: the response of this iteration
    lastLog,   \* main: the last line main printed about the socket
    pkt,       \* decoder run: the packet argument
    off,       \* decoder run: the offset argument
    op,        \* decoder run: "name" | "question" | "handle"
    cpc,       \* decoder run: "call" | "loop" | "tail" | "hloop" | "ret"
    st,        \* decoder run: locals of parseDomainName (pos, domain, bytesRead)
    ret,       \* decoder run: what the function returned
    hnd        \* decoder run: locals of HandleDNSPacket (i, offset, qdcount)

mainVars  == <<pc, buf, response, lastLog>>
codecVars == <<pkt, off, op, cpc, st, ret, hnd>>
vars      == <<pc, buf, response, lastLog, pkt, off, op, cpc, st, ret, hnd>>

(***************************************************************************)
(* Bounds of the model.                                                     *)
(***************************************************************************)
MaxPad    == 4   \* zero bytes appended after the question of a generated query
MaxRawLen == 5   \* length of the exhaustively enumerated raw packets

(***************************************************************************)
(* Program constants.                                                       *)
(***************************************************************************)
HeaderLen == 12  \* offset := 12
BufSize   == 512 \* buf := make([]byte, 512)

(***************************************************************************)
(* Bytes and strings.                                                       *)
(***************************************************************************)
Dot             == <<46>>
Str_localdns    == <<108, 111, 99, 97, 108, 100, 110, 115>>
Str_io          == <<105, 111>>
Str_codecrafters == <<99, 111, 100, 101, 99, 114, 97, 102, 116, 101, 114, 115>>

Hi(w) == w \div 256
Lo(w) == w % 256
\* uint16(b1)<<8 | uint16(b2)
U16(b1, b2) == b1 * 256 + b2

Min(a, b) == IF a <= b THEN a ELSE b

\* x | 0b10000000 on a byte
OrQR(x) == IF (x \div 128) % 2 = 1 THEN x ELSE x + 128

(***************************************************************************)
(* Slice writes with Go's bounds checks.  r = [panic, b].                   *)
(***************************************************************************)
\* response[i] = v
Put(r, i, v) ==
    IF r.panic \/ i < 0 \/ i >= Len(r.b)
    THEN [panic |-> TRUE, b |-> r.b]
    ELSE [panic |-> FALSE, b |-> [r.b EXCEPT ![i + 1] = v]]

\* copy(response[lo:hi], src): the slice expression panics unless
\* 0 <= lo <= hi <= cap(response) (= len, response comes from make);
\* copy moves min(hi-lo, len(src)) bytes.
CopyTo(r, lo, hi, src) ==
    IF r.panic \/ lo < 0 \/ lo > hi \/ hi > Len(r.b)
    THEN [panic |-> TRUE, b |-> r.b]
    ELSE LET n == Min(hi - lo, Len(src))
         IN  [panic |-> FALSE,
              b |-> [k \in 1..Len(r.b) |->
                        IF k > lo /\ k <= lo + n THEN src[k - lo] ELSE r.b[k]]]

(***************************************************************************)
(* createResponse (main.go 51-97).                                          *)
(***************************************************************************)
\* The commented-out step 2 put back: the ID is overwritten with 0x04D2.
createResponse_FixedID(query) ==
    LET r0 == [panic |-> FALSE, b |-> query]
        r1 == Put(Put(r0, 0, 4), 1, 210)
        r2 == IF Len(r1.b) <= 2 THEN [panic |-> TRUE, b |-> r1.b]
              ELSE Put(r1, 2, OrQR(r1.b[3]))
        r3 == Put(Put(r2, 4, 0), 5, 1)
        o1 == HeaderLen
        r4 == CopyTo(Put(r3, o1, 12), o1 + 1, o1 + 13, Str_localdns)
        o2 == o1 + 13
        r5 == CopyTo(Put(r4, o2, 2), o2 + 1, o2 + 3, Str_io)
        o3 == o2 + 3
        r6 == Put(r5, o3, 0)
        o4 == o3 + 1
        r7 == Put(Put(r6, o4, 0), o4 + 1, 1)
        o5 == o4 + 2
        r8 == Put(Put(r7, o5, 0), o5 + 1, 1)
    IN  r8

createResponse(query) ==
    LET \* response := make([]byte, len(query)); copy(response, query)
        r0 == [panic |-> FALSE, b |-> query]
        \* response[2] = response[2] | 0b10000000
        r2 == IF Len(r0.b) <= 2 THEN [panic |-> TRUE, b |-> r0.b]
              ELSE Put(r0, 2, OrQR(r0.b[3]))
        \* response[4] = 0x00; response[5] = 0x01
        r3 == Put(Put(r2, 4, 0), 5, 1)
        o1 == HeaderLen
        \* response[offset] = 0x0c; copy(response[offset+1:offset+13], "localdns")
        r4 == CopyTo(Put(r3, o1, 12), o1 + 1, o1 + 13, Str_localdns)
        o2 == o1 + 13
        \* response[offset] = 0x02; copy(response[offset+1:offset+3], "io")
        r5 == CopyTo(Put(r4, o2, 2), o2 + 1, o2 + 3, Str_io)
        o3 == o2 + 3
        \* response[offset] = 0x00
        r6 == Put(r5, o3, 0)
        o4 == o3 + 1
        \* QTYPE
        r7 == Put(Put(r6, o4, 0), o4 + 1, 1)
        o5 == o4 + 2
        \* QCLASS
        r8 == Put(Put(r7, o5, 0), o5 + 1, 1)
    IN  r8

(***************************************************************************)
(* Decoder results.  status is "ok", "err" (the error return) or "panic".   *)
(***************************************************************************)
NoResult == [status |-> "none", err |-> "", domain |-> <<>>,
             qtype |-> 0, qclass |-> 0, bytesRead |-> 0]
ErrResult(msg) == [NoResult EXCEPT !.status = "err", !.err = msg]
PanicResult == [NoResult EXCEPT !.status = "panic"]
NameResult(domain, bytesRead) ==
    [NoResult EXCEPT !.status = "ok", !.domain = domain, !.bytesRead = bytesRead]

\* packet[i] is a legal index expression
InBounds(packet, i) == i >= 0 /\ i < Len(packet)
\* packet[lo:hi] is a legal slice expression
SliceOk(packet, lo, hi) == 0 <= lo /\ lo <= hi /\ hi <= Len(packet)

NameStart(offset) == [pos |-> offset, domain |-> <<>>, bytesRead |-> 0]

(***************************************************************************)
(* parseDomainName (main.go 102-151): one pass through the body of the      *)
(* for loop, from locals s.  [done, s, ret].                                *)
(***************************************************************************)
\* The loop without its "pos >= len(packet)" test.
NameIter_NoEndCheck(packet, s) ==
    IF ~InBounds(packet, s.pos)
    THEN [done |-> TRUE, s |-> s, ret |-> PanicResult]
    ELSE LET length == packet[s.pos + 1]
             pos1   == s.pos + 1
         IN  IF length = 0
             THEN [done |-> TRUE, s |-> s,
                   ret |-> NameResult(s.domain, s.bytesRead + 1)]
             ELSE IF pos1 + length > Len(packet)
             THEN [done |-> TRUE, s |-> s, ret |-> ErrResult("incomplete label")]
             ELSE [done |-> FALSE, ret |-> NoResult,
                   s |-> [pos |-> pos1 + length,
                          domain |-> (IF s.domain # <<>> THEN s.domain \o Dot ELSE s.domain)
                                     \o SubSeq(packet, pos1 + 1, pos1 + length),
                          bytesRead |-> s.bytesRead + 1 + length]]

NameIter(packet, s) ==
    IF s.pos >= Len(packet)
    THEN [done |-> TRUE, s |-> s, ret |-> ErrResult("incomplete domain name")]
    ELSE IF ~InBounds(packet, s.pos)
    THEN [done |-> TRUE, s |-> s, ret |-> PanicResult]
    ELSE LET length == packet[s.pos + 1]
             pos1   == s.pos + 1
         IN  IF length = 0
             THEN [done |-> TRUE, s |-> s,
                   ret |-> NameResult(s.domain, s.bytesRead + 1)]
             ELSE IF pos1 + length > Len(packet)
             THEN [done |-> TRUE, s |-> s, ret |-> ErrResult("incomplete label")]
             ELSE IF ~SliceOk(packet, pos1, pos1 + length)
             THEN [done |-> TRUE, s |-> s, ret |-> PanicResult]
             ELSE [done |-> FALSE, ret |-> NoResult,
                   s |-> [pos |-> pos1 + length,
                          domain |-> (IF s.domain # <<>> THEN s.domain \o Dot ELSE s.domain)
                                     \o SubSeq(packet, pos1 + 1, pos1 + length),
                          bytesRead |-> s.bytesRead + 1 + length]]

RECURSIVE NameLoop(_, _)
NameLoop(packet, s) ==
    LET n == NameIter(packet, s)
    IN  IF n.done THEN n.ret ELSE NameLoop(packet, n.s)

parseDomainName(packet, offset) ==
    IF offset >= Len(packet)
    THEN ErrResult("offset beyond packet length")
    ELSE NameLoop(packet, NameStart(offset))

(***************************************************************************)
(* parseQuestion (main.go 154-176).  QuestionTail is what follows the call  *)
(* of parseDomainName when it returned nm without error.                    *)
(***************************************************************************)
QuestionTail(packet, offset, nm) ==
    LET at == offset + nm.bytesRead
    IN  IF at + 4 > Len(packet)
        THEN ErrResult("packet too short for question section")
        ELSE IF \E k \in 0..3 : ~InBounds(packet, at + k)
        THEN PanicResult
        ELSE [status |-> "ok", err |-> "", domain |-> nm.domain,
              qtype  |-> U16(packet[at + 1], packet[at + 2]),
              qclass |-> U16(packet[at + 3], packet[at + 4]),
              bytesRead |-> nm.bytesRead + 4]

parseQuestion(packet, offset) ==
    LET nm == parseDomainName(packet, offset)
    IN  IF nm.status = "ok" THEN QuestionTail(packet, offset, nm) ELSE nm

(***************************************************************************)
(* Header fields of a message of at least 12 bytes, as HandleDNSPacket      *)
(* (main.go 186-188) reads them, and the flag bits of the wire format.      *)
(***************************************************************************)
MsgID(m)      == U16(m[1], m[2])
MsgFlags(m)   == U16(m[3], m[4])
MsgQDCount(m) == U16(m[5], m[6])
MsgANCount(m) == U16(m[7], m[8])
MsgQR(m)      == (MsgFlags(m) \div 32768) % 2
MsgOpcode(m)  == (MsgFlags(m) \div 2048) % 16
MsgRD(m)      == (MsgFlags(m) \div 256) % 2
MsgRCode(m)   == MsgFlags(m) % 16

(***************************************************************************)
(* The datagrams the network delivers: what a DNS client (or an attacker)   *)
(* puts on the wire.  Labels are byte strings; a name is a sequence of      *)
(* labels.                                                                  *)
(***************************************************************************)
RECURSIVE EncName(_)
EncName(labels) ==
    IF labels = <<>> THEN <<0>>
    ELSE <<Len(Head(labels))>> \o Head(labels) \o EncName(Tail(labels))

EncQuestion(labels, qtype, qclass) ==
    EncName(labels) \o <<Hi(qtype), Lo(qtype), Hi(qclass), Lo(qclass)>>

EncHeader(id, b2, qd, an) ==
    <<Hi(id), Lo(id), b2, 0, Hi(qd), Lo(qd), Hi(an), Lo(an), 0, 0, 0, 0>>

Zeros(n) == [k \in 1..n |-> 0]
Fill(n, v) == [k \in 1..n |-> v]

Prefixes(m) == {SubSeq(m, 1, n) : n \in 0..Len(m)}

Name_codecrafters_io == <<Str_codecrafters, Str_io>>
Name_localdns_io     == <<Str_localdns, Str_io>>
Name_localdnsters_io == <<Str_localdns \o <<116, 101, 114, 115>>, Str_io>>

QueryNames   == {Name_codecrafters_io, Name_localdns_io, Name_localdnsters_io}
QueryIDs     == {0, 4660, 65535}
\* third header byte: plain, RD, Opcode 5 with RD, QR already set with RD
QueryFlagsHi == {0, 1, 41, 129}
QueryQTypes  == {1, 28}
QueryANs     == {0, 1}

Queries ==
    {EncHeader(id, b2, 1, an) \o EncQuestion(nm, qt, 1) \o Zeros(pad) :
        id \in QueryIDs, b2 \in QueryFlagsHi, an \in QueryANs,
        nm \in QueryNames, qt \in QueryQTypes, pad \in 0..MaxPad}

\* every query, cut at every byte boundary
Datagrams == UNION {Prefixes(q) : q \in Queries}

\* The end-to-end query of the specification: ID 0x1234, RD=1, codecrafters.io A IN.
EndToEndQuery == EncHeader(4660, 1, 1, 0) \o EncQuestion(Name_codecrafters_io, 1, 1)

(***************************************************************************)
(* main (main.go 26-48): the transport loop.                                *)
(***************************************************************************)
\* size, source, err := udpConn.ReadFromUDP(buf), err == nil
Receive ==
    /\ pc = "recv"
    /\ \E d \in Datagrams :
          /\ Len(d) <= BufSize
          /\ buf' = d
    /\ pc' = "build"
    /\ UNCHANGED <<response, lastLog>>

\* ReadFromUDP returned an error: it is printed and the loop is left (break);
\* main returns.
ReceiveError ==
    /\ pc = "recv"
    /\ lastLog' = "Error receiving data"
    /\ pc' = "returned"
    /\ UNCHANGED <<buf, response>>

\* response := createResponse(buf[:size]); nothing recovers a panic.
Build ==
    /\ pc = "build"
    /\ LET r == createResponse(buf)
       IN  IF r.panic
           THEN pc' = "panicked" /\ UNCHANGED response
           ELSE pc' = "send" /\ response' = r.b
    /\ UNCHANGED <<buf, lastLog>>

\* udpConn.WriteToUDP(response, source), err == nil; the iteration's locals end.
Send ==
    /\ pc = "send"
    /\ pc' = "recv"
    /\ buf' = <<>>
    /\ response' = <<>>
    /\ lastLog' = "none"

\* WriteToUDP returned an error: it is printed, the loop goes on.
SendError ==
    /\ pc = "send"
    /\ pc' = "recv"
    /\ buf' = <<>>
    /\ response' = <<>>
    /\ lastLog' = "Failed to send response"

Init ==
    /\ pc = "recv"
    /\ buf = <<>>
    /\ response = <<>>
    /\ lastLog = "none"
    /\ pkt = <<>>
    /\ off = 0
    /\ op = "none"
    /\ cpc = "ret"
    /\ st = NameStart(0)
    /\ ret = NoResult
    /\ hnd = [i |-> 0, offset |-> 0, qdcount |-> 0]

Next ==
    \/ Receive /\ UNCHANGED codecVars
    \/ ReceiveError /\ UNCHANGED codecVars
    \/ Build /\ UNCHANGED codecVars
    \/ Send /\ UNCHANGED codecVars
    \/ SendError /\ UNCHANGED codecVars

Spec == Init /\ [][Next]_vars

(***************************************************************************)
(* Inputs of the decoders.                                                  *)
(***************************************************************************)
\* bytes of the raw packets: terminator, label lengths 1 and 2, pointer marker
RawBytes == {0, 1, 2, 192}

RawPackets == UNION {[1..n -> RawBytes] : n \in 0..MaxRawLen}

\* A question whose name is the two bytes 0xC0 0x0A: a compression pointer to
\* the zero byte at offset 10 of the header, the root name.
PointerToHeaderMessage == EncHeader(4660, 1, 1, 0) \o <<192, 10, 0, 1, 0, 1>>

\* Well-formed encodings of a header and one question.
ValidMessages ==
    {EncHeader(4660, 1, 1, 0) \o EncQuestion(nm, qt, 1) :
        nm \in QueryNames \cup {<<>>, <<Str_io>>}, qt \in QueryQTypes}
    \cup {PointerToHeaderMessage}

\* Two questions, and a QDCOUNT larger than the questions present.
TwoQuestionMessage ==
    EncHeader(4660, 1, 2, 0) \o EncQuestion(Name_localdns_io, 1, 1)
                             \o EncQuestion(<<Str_io>>, 28, 1)
OverCountMessage ==
    EncHeader(4660, 1, 65535, 0) \o EncQuestion(<<Str_io>>, 1, 1)

\* At offset 12 a byte with the top two bits set, 0xC0+hi, then lo: a pointer
\* with target hi*256+lo; then n bytes v and a zero byte.
PointerMessage(hi, lo, n, v) ==
    EncHeader(4660, 1, 1, 0) \o <<192 + hi, lo>> \o Fill(n, v) \o <<0, 0, 1, 0, 1>>

PointerMessages ==
    {PointerMessage(0, 12, 191, 97),   \* target 12: the pointer itself
     PointerMessage(0, 12, 190, 97),
     PointerMessage(0, 200, 191, 97),  \* target 200: forward
     PointerMessage(63, 255, 254, 97), \* 0xFF 0xFF: target past the packet
     PointerMessage(0, 0, 191, 97),    \* target 0: backward
     PointerMessage(0, 12, 0, 97)}

StructuredPackets ==
    UNION {Prefixes(m) : m \in ValidMessages \cup {TwoQuestionMessage, OverCountMessage}}

CodecPackets == RawPackets \cup StructuredPackets \cup PointerMessages

\* HandleDNSPacket takes no offset; the long pointer messages are decoded at
\* their question and at two offsets past it, every other packet at every
\* offset up to one past its end.
CodecOffsets(p, f) ==
    IF f = "handle" THEN {HeaderLen}
    ELSE IF p \in PointerMessages THEN {HeaderLen, HeaderLen + 1, 2 * HeaderLen}
    ELSE 0..(Len(p) + 1)

(***************************************************************************)
(* A run of one decoder on one input, a step at a time.                     *)
(***************************************************************************)
InitCodec ==
    /\ pc = "returned"
    /\ buf = <<>>
    /\ response = <<>>
    /\ lastLog = "none"
    /\ \E p \in CodecPackets, f \in {"name", "question", "handle"} :
          /\ Len(p) <= BufSize
          /\ pkt = p
          /\ op = f
          /\ \E o \in CodecOffsets(p, f) : off = o
    /\ cpc = "call"
    /\ st = NameStart(0)
    /\ ret = NoResult
    /\ hnd = [i |-> 0, offset |-> 0, qdcount |-> 0]

\* parseDomainName is entered (main.go 103-112), directly or from parseQuestion.
NameCall ==
    /\ cpc = "call"
    /\ op \in {"name", "question"}
    /\ IF off >= Len(pkt)
       THEN /\ ret' = ErrResult("offset beyond packet length")
            /\ cpc' = "ret"
            /\ UNCHANGED st
       ELSE /\ st' = NameStart(off)
            /\ cpc' = "loop"
            /\ UNCHANGED ret
    /\ UNCHANGED <<pkt, off, op, hnd>>

\* One pass through the for loop of parseDomainName (main.go 115-148); when
\* the loop ends the function returns, to its caller parseQuestion if any.
NameLoopStep ==
    /\ cpc = "loop"
    /\ LET n == NameIter(pkt, st)
       IN  IF ~n.done
           THEN st' = n.s /\ UNCHANGED <<ret, cpc>>
           ELSE /\ ret' = n.ret
                /\ cpc' = IF op = "question" /\ n.ret.status = "ok" THEN "tail" ELSE "ret"
                /\ UNCHANGED st
    /\ UNCHANGED <<pkt, off, op, hnd>>

\* parseQuestion after the name (main.go 160-175).
QuestionTailStep ==
    /\ cpc = "tail"
    /\ ret' = QuestionTail(pkt, off, ret)
    /\ cpc' = "ret"
    /\ UNCHANGED <<pkt, off, op, st, hnd>>

\* HandleDNSPacket up to its loop (main.go 180-195).
HandleCall ==
    /\ cpc = "call"
    /\ op = "handle"
    /\ IF Len(pkt) < 12
       THEN /\ ret' = ErrResult("Packet too short")
            /\ cpc' = "ret"
            /\ UNCHANGED hnd
       ELSE /\ hnd' = [i |-> 0, offset |-> HeaderLen, qdcount |-> MsgQDCount(pkt)]
            /\ cpc' = "hloop"
            /\ UNCHANGED ret
    /\ UNCHANGED <<pkt, off, op, st>>

\* One pass through the question loop of HandleDNSPacket (main.go 196-209).
HandleLoopStep ==
    /\ cpc = "hloop"
    /\ IF hnd.i < hnd.qdcount
       THEN LET q == parseQuestion(pkt, hnd.offset)
            IN  /\ ret' = q
                /\ IF q.status = "ok"
                   THEN /\ hnd' = [hnd EXCEPT !.i = @ + 1, !.offset = @ + q.bytesRead]
                        /\ UNCHANGED cpc
                   ELSE /\ cpc' = "ret"
                        /\ UNCHANGED hnd
       ELSE /\ cpc' = "ret"
            /\ UNCHANGED <<ret, hnd>>
    /\ UNCHANGED <<pkt, off, op, st>>

NextCodec ==
    \/ NameCall /\ UNCHANGED mainVars
    \/ NameLoopStep /\ UNCHANGED mainVars
    \/ QuestionTailStep /\ UNCHANGED mainVars
    \/ HandleCall /\ UNCHANGED mainVars
    \/ HandleLoopStep /\ UNCHANGED mainVars

SpecCodec == InitCodec /\ [][NextCodec]_vars

(***************************************************************************)
(* Vocabulary of the properties.  The repository has no resource-record     *)
(* code; RecordAt reads a record as the wire format lays it out (name,      *)
(* TYPE, CLASS, TTL, RDLENGTH, RDATA), with the name read by                *)
(* parseDomainName.                                                         *)
(***************************************************************************)
RecordAt(packet, offset) ==
    LET nm == parseDomainName(packet, offset)
        at == offset + nm.bytesRead
    IN  IF nm.status # "ok" \/ at + 10 > Len(packet)
        THEN [ok |-> FALSE, name |-> <<>>, rtype |-> 0, rclass |-> 0,
              ttl |-> 0, rdlength |-> 0, bytesRead |-> 0]
        ELSE LET rdlength == U16(packet[at + 9], packet[at + 10])
             IN  [ok |-> at + 10 + rdlength <= Len(packet),
                  name |-> nm.domain,
                  rtype |-> U16(packet[at + 1], packet[at + 2]),
                  rclass |-> U16(packet[at + 3], packet[at + 4]),
                  ttl |-> U16(packet[at + 5], packet[at + 6]) * 65536
                          + U16(packet[at + 7], packet[at + 8]),
                  rdlength |-> rdlength,
                  bytesRead |-> nm.bytesRead + 10 + rdlength]

\* The offset after n questions read from offset, or -1 when one does not decode.
RECURSIVE QuestionsEnd(_, _, _)
QuestionsEnd(packet, offset, n) ==
    IF n = 0 THEN offset
    ELSE LET q == parseQuestion(packet, offset)
         IN  IF q.status # "ok" THEN -1
             ELSE QuestionsEnd(packet, offset + q.bytesRead, n - 1)

\* The offset after n records read from offset, or -1 when one does not decode.
RECURSIVE RecordsEnd(_, _, _)
RecordsEnd(packet, offset, n) ==
    IF n = 0 THEN offset
    ELSE LET r == RecordAt(packet, offset)
         IN  IF ~r.ok THEN -1
             ELSE RecordsEnd(packet, offset + r.bytesRead, n - 1)

\* Reading labels from pos reaches a byte with the top two bits set, followed
\* by a second byte, whose 14-bit target is not before the pointer itself.
RECURSIVE BadPointerOnPath(_, _)
BadPointerOnPath(packet, pos) ==
    IF pos < 0 \/ pos + 1 >= Len(packet) THEN FALSE
    ELSE LET b == packet[pos + 1]
         IN  IF b >= 192 THEN (b - 192) * 256 + packet[pos + 2] >= pos
             ELSE IF b = 0 \/ b > 63 THEN FALSE
             ELSE BadPointerOnPath(packet, pos + 1 + b)

IsStrictPrefixOfValid(p) ==
    \E v \in ValidMessages : Len(p) < Len(v) /\ p = SubSeq(v, 1, Len(p))

\* createResponse has returned (pc = "send") or panicked on buf
Built == pc \in {"send", "panicked"}

(***************************************************************************)
(* C1.  No datagram of 0..512 bytes terminates the server: handling it      *)
(* raises no run-time panic.                                                *)
(***************************************************************************)
C1_NoDatagramPanics == pc # "panicked"

(***************************************************************************)
(* C2.  For an input shorter than the 12-byte header the response builder   *)
(* returns a response with QR=1, RCODE=1, QDCOUNT=0, ANCOUNT=0 and the ID   *)
(* of the first two input bytes (zero when they are absent).                *)
(***************************************************************************)
C2_ShortInputGetsFormatError ==
    (Built /\ Len(buf) < HeaderLen) =>
        /\ pc = "send"
        /\ Len(response) >= HeaderLen
        /\ MsgQR(response) = 1
        /\ MsgRCode(response) = 1
        /\ MsgQDCount(response) = 0
        /\ MsgANCount(response) = 0
        /\ MsgID(response) = IF Len(buf) >= 2 THEN U16(buf[1], buf[2]) ELSE 0

(***************************************************************************)
(* C3.  In every response built by createResponse the header counts match   *)
(* the sections: QDCOUNT questions are encoded after the header and         *)
(* ANCOUNT answer records after them.                                       *)
(***************************************************************************)
C3_CountsMatchSections ==
    pc = "send" =>
        LET qend == QuestionsEnd(response, HeaderLen, MsgQDCount(response))
        IN  /\ qend >= 0
            /\ RecordsEnd(response, qend, MsgANCount(response)) >= 0

(***************************************************************************)
(* C4.  Every response createResponse returns carries the query's ID, has   *)
(* QR=1, and has the query's Opcode and RD bits.                            *)
(***************************************************************************)
C4_HeaderEchoed ==
    pc = "send" =>
        /\ MsgID(response) = MsgID(buf)
        /\ MsgQR(response) = 1
        /\ MsgOpcode(response) = MsgOpcode(buf)
        /\ MsgRD(response) = MsgRD(buf)

C4_Witness ==
    /\ pc = "send"
    /\ MsgID(buf) = 4660
    /\ MsgQR(buf) = 0
    /\ MsgOpcode(buf) = 5
    /\ MsgRD(buf) = 1
    /\ MsgID(response) = 4660

(***************************************************************************)
(* C5.  The question of a one-question query is echoed unchanged: the       *)
(* question decoded at offset 12 of the response has the name, QTYPE and    *)
(* QCLASS of the question decoded at offset 12 of the query.                *)
(***************************************************************************)
C5_QuestionEchoed ==
    (pc = "send" /\ MsgQDCount(buf) = 1 /\ parseQuestion(buf, HeaderLen).status = "ok") =>
        LET q == parseQuestion(buf, HeaderLen)
            e == parseQuestion(response, HeaderLen)
        IN  /\ e.status = "ok"
            /\ e.domain = q.domain
            /\ e.qtype = q.qtype
            /\ e.qclass = q.qclass

(***************************************************************************)
(* C6.  A one-question query with QTYPE=A and QCLASS=IN gets QDCOUNT=1,     *)
(* ANCOUNT=1 and one answer record after the question: the question's       *)
(* name, type A, class IN, a positive TTL, 4 bytes of RDATA.  A question    *)
(* of another QTYPE gets no answer (ANCOUNT=0).                             *)
(***************************************************************************)
C6_AnswerForAQuestion ==
    (pc = "send" /\ MsgQDCount(buf) = 1 /\ parseQuestion(buf, HeaderLen).status = "ok") =>
        LET q    == parseQuestion(buf, HeaderLen)
            qend == QuestionsEnd(response, HeaderLen, 1)
            a    == RecordAt(response, qend)
        IN  IF q.qtype = 1 /\ q.qclass = 1
            THEN /\ MsgQDCount(response) = 1
                 /\ MsgANCount(response) = 1
                 /\ qend >= 0
                 /\ a.ok
                 /\ a.name = q.domain
                 /\ a.rtype = 1
                 /\ a.rclass = 1
                 /\ a.ttl > 0
                 /\ a.rdlength = 4
            ELSE MsgANCount(response) = 0

(***************************************************************************)
(* C7.  After a socket receive failure and after a socket send failure the  *)
(* loop is at its receive step again.                                       *)
(***************************************************************************)
C7_SocketErrorsContinue ==
    [][(ReceiveError \/ SendError) => pc' = "recv"]_vars

(***************************************************************************)
(* C8.  The decoders never index the packet out of bounds; a successful     *)
(* decode reports offset+bytesRead <= len(packet); and decoding the         *)
(* question at offset 12 of a strict prefix of a valid header-plus-question *)
(* encoding returns an error.                                               *)
(***************************************************************************)
C8_DecodeInBoundsAndRejectsTruncation ==
    /\ ret.status # "panic"
    /\ (cpc = "loop") => (st.pos <= Len(pkt) /\ off + st.bytesRead = st.pos)
    /\ (cpc \in {"tail", "ret"} /\ op \in {"name", "question"} /\ ret.status = "ok") =>
            off + ret.bytesRead <= Len(pkt)
    /\ (op = "handle" /\ cpc \in {"hloop", "ret"}) => hnd.offset <= Len(pkt)
    /\ (cpc = "ret" /\ op \in {"question", "handle"} /\ off = HeaderLen
            /\ IsStrictPrefixOfValid(pkt)) => ret.status = "err"

C8_Witness ==
    /\ cpc = "ret"
    /\ op = "question"
    /\ off = HeaderLen
    /\ IsStrictPrefixOfValid(pkt)
    /\ ret.status = "err"
    /\ ret.err = "packet too short for question section"
    /\ st.pos = Len(pkt) - 3

(***************************************************************************)
(* C9.  Decoding a name that contains a compression pointer whose target    *)
(* is at or after the pointer's own offset fails with an error.             *)
(***************************************************************************)
C9_BadPointerRejected ==
    (cpc = "ret" /\ op = "name" /\ BadPointerOnPath(pkt, off)) => ret.status = "err"

(***************************************************************************)
(* C10.  The question createResponse writes decodes, at offset 12 of the    *)
(* response, as the name "localdns.io" with QTYPE 1 and QCLASS 1.           *)
(***************************************************************************)
C10_ResponseQuestionIsLocaldnsIo ==
    pc = "send" =>
        LET e == parseQuestion(response, HeaderLen)
        IN  /\ e.status = "ok"
            /\ e.domain = Str_localdns \o Dot \o Str_io
            /\ e.qtype = 1
            /\ e.qclass = 1

=============================================================================
